---- MODULE Spec2Model ----
(***************************************************************************)
(* Model of the Sprite Frame Tool editor (src/sprite_manager.py): the      *)
(* SpriteManager window state, its event handlers, the OriginPoint marker  *)
(* and the folder / data.json sidecar it reads and writes.                 *)
(*                                                                         *)
(* Paths are sequences of name components (<<"r","s","b.PNG">> is          *)
(* r/s/b.PNG).  The text of a QLineEdit is a record [k, n]: k = "int" is   *)
(* the decimal literal of the integer n (what str(n) produces), k = "dec"  *)
(* is a literal with one fractional digit worth n tenths ("0.5" is n = 5), *)
(* k = "word" is non-numeric text ("abc"), k = "empty" is "".  Positions   *)
(* and the zoom factor are rationals <<numerator, denominator>>.           *)
(***************************************************************************)
EXTENDS Integers, Sequences, FiniteSets, TLC

\* ------------------------------------------------------------------ bounds

\* Number of user / environment events explored in one run.
MaxSteps == 6

\* ------------------------------------------------------- folder contents

Root == <<"r">>
Sub == <<"r", "s">>
Dirs == {Root, Sub}

\* None / '' for a path-valued attribute.
NoPath == <<>>

FileA == <<"r", "a.png">>
FileN == <<"r", "n.txt">>
FileB == <<"r", "s", "b.PNG">>
FileC == <<"r", "s", "c.jpeg">>
AllFiles == {FileA, FileN, FileB, FileC}

\* os.walk(folder) with dirs.sort() and files.sort(): the files of the root
\* directory in name order, then those of each subdirectory.
WalkOrder == <<FileA, FileN, FileB, FileC>>

\* Pixel size <<width, height>> of the image stored in a file.
ImageSize(p) ==
    CASE p = FileA -> <<128, 64>>
      [] p = FileB -> <<5, 3>>
      [] OTHER -> <<7, 4>>

\* ------------------------------------------------------------ path helpers

Last(s) == s[Len(s)]

Range(s) == {s[i] : i \in 1..Len(s)}

\* str.lower() on the file names of the folder.
Lower(name) ==
    CASE name = "b.PNG" -> "b.png"
      [] OTHER -> name

\* The text after the last dot of a (lower-cased) file name, dot included.
Suffix(name) ==
    CASE name = "a.png" -> ".png"
      [] name = "b.png" -> ".png"
      [] name = "c.jpeg" -> ".jpeg"
      [] name = "n.txt" -> ".txt"
      [] name = "data.json" -> ".json"
      [] OTHER -> ""

\* f.lower().endswith((".png", ".jpg", ".jpeg"))
IsImageName(name) == Suffix(Lower(name)) \in {".png", ".jpg", ".jpeg"}

\* os.path.join(folder, k) for a relative k.
Join(folder, k) == folder \o k

\* Length of the longest common prefix of two component sequences.
RECURSIVE CommonLen(_, _)
CommonLen(a, b) ==
    IF a = <<>> \/ b = <<>> \/ Head(a) # Head(b)
    THEN 0
    ELSE 1 + CommonLen(Tail(a), Tail(b))

\* os.path.commonpath(paths) for a non-empty list of absolute paths.
RECURSIVE CommonPath(_)
CommonPath(paths) ==
    IF Len(paths) = 1
    THEN paths[1]
    ELSE LET rest == CommonPath(Tail(paths))
         IN SubSeq(rest, 1, CommonLen(paths[1], rest))

\* A sequence of n ".." components.
Ups(n) == [i \in 1..n |-> ".."]

\* os.path.relpath(k, start).
RelPath(k, start) ==
    LET c == CommonLen(k, start)
        rel == Ups(Len(start) - c) \o SubSeq(k, c + 1, Len(k))
    IN IF rel = <<>> THEN <<".">> ELSE rel

\* -------------------------------------------------------------- arithmetic

\* Python's a // b (floor division), b # 0.
FloorDiv(a, b) == IF b > 0 THEN a \div b ELSE (0 - a) \div (0 - b)

\* int(n / d) for d > 0: truncation toward zero.
Trunc(n, d) == IF n >= 0 THEN n \div d ELSE 0 - ((0 - n) \div d)

\* Python's round(n / d) for d > 0: nearest integer, ties to the even one.
PyRound(n, d) ==
    LET q == n \div d
        r == n - q * d
    IN IF 2 * r < d THEN q
       ELSE IF 2 * r > d THEN q + 1
       ELSE IF q % 2 = 0 THEN q ELSE q + 1

\* ------------------------------------------------------------- field text

Str(n) == [k |-> "int", n |-> n]
TxtEmpty == [k |-> "empty", n |-> 0]
TxtWord == [k |-> "word", n |-> 0]
TxtDec(t) == [k |-> "dec", n |-> t]

\* int(text) succeeds.
ParsesInt(t) == t.k = "int"

\* float(text) succeeds.
ParsesFloat(t) == t.k \in {"int", "dec"}

\* int(float(text)) when float(text) succeeds.
IntOfFloat(t) == IF t.k = "int" THEN t.n ELSE Trunc(t.n, 10)

\* bool(text): a non-empty string.
Truthy(t) == t.k # "empty"

\* ----------------------------------------------------------------- entries

FieldNames ==
    {"frame_width", "frame_height", "frame_count_x", "frame_count_y",
     "origin_x", "origin_y"}

\* {} as a sprite entry.
EmptyEntry == [f \in {} |-> 0]

\* entry[f] = v on a dict.
SetField(e, f, v) ==
    [g \in (DOMAIN e) \cup {f} |-> IF g = f THEN v ELSE e[g]]

\* A dict with no keys.
EmptyDict == [p \in {} |-> EmptyEntry]

\* ------------------------------------------------- sidecar and folder scan

EntryFull ==
    [frame_width |-> 32, frame_height |-> 32,
     frame_count_x |-> 4, frame_count_y |-> 2,
     origin_x |-> 3, origin_y |-> 5]

EntryNoOrigin ==
    [frame_width |-> 5, frame_height |-> 3,
     frame_count_x |-> 1, frame_count_y |-> 1]

\* Contents of a data.json: no file, a file json.load rejects, or a mapping
\* from relative path to entry.
NoSidecar == [kind |-> "absent", m |-> EmptyDict]
BadSidecar == [kind |-> "malformed", m |-> EmptyDict]
MapSidecar(m) == [kind |-> "map", m |-> m]

\* A data.json left by an earlier session: entries for a.png and s/b.PNG,
\* for a file that is gone (old.png) and for a file that is no image.
OldSidecar ==
    MapSidecar(
        (<<"a.png">> :> EntryFull) @@ (<<"s", "b.PNG">> :> EntryNoOrigin)
        @@ (<<"old.png">> :> EntryFull) @@ (<<"n.txt">> :> EntryNoOrigin))

InitialSidecars == {NoSidecar, BadSidecar, OldSidecar}

\* The image files os.walk finds, in walk order (lines 287-303).
Scan(fsys) ==
    SelectSeq(WalkOrder,
              LAMBDA p : fsys[p] # "absent" /\ IsImageName(Last(p)))

\* {os.path.join(folder, k): v for k, v in loaded.items()} (line 279).
Rehydrate(folder, m) ==
    [p \in {Join(folder, k) : k \in DOMAIN m} |->
        m[CHOOSE k \in DOMAIN m : Join(folder, k) = p]]

\* self.data after the sidecar is read (lines 274-284), and whether the
\* "Failed to load data.json" box was shown.
ReadSidecar(folder, content) ==
    CASE content.kind = "absent" -> [data |-> EmptyDict, warned |-> FALSE]
      [] content.kind = "malformed" -> [data |-> EmptyDict, warned |-> TRUE]
      [] OTHER -> [data |-> Rehydrate(folder, content.m), warned |-> FALSE]

\* Mutant of PruneDeleted: the filter of line 316 is left out.
PruneDeleted_keepAll(d, valid) == d

\* {k: v for k, v in self.data.items() if k in valid_paths} (line 316).
PruneDeleted(d, valid) == [p \in (DOMAIN d) \cap valid |-> d[p]]

\* for path in self.image_paths: if path not in self.data: data[path] = {}
AddPlaceholders(d, paths) ==
    [p \in (DOMAIN d) \cup Range(paths) |->
        IF p \in DOMAIN d THEN d[p] ELSE EmptyEntry]

\* ------------------------------------------------------------- update_data

\* Mutant of FrameSize: the quotient is rounded up instead of down.
FrameSize_ceil(dim, count) == FloorDiv(dim + count - 1, count)

\* self.img_width // frame_count_x (lines 425-426).
FrameSize(dim, count) == FloorDiv(dim, count)

\* update_data(entry) with the form texts f and the loaded image size w x h:
\* the entry as the statements executed so far leave it, and the exception
\* that ended the call ("none" when it returned).
UpdateData(entry, f, w, h) ==
    IF ~ParsesFloat(f.cx) \/ ~ParsesFloat(f.cy)
    THEN [entry |-> entry, exc |-> "ValueError"]
    ELSE
      LET cx == IntOfFloat(f.cx)
          cy == IntOfFloat(f.cy)
          e1 == SetField(SetField(entry, "frame_count_x", cx),
                         "frame_count_y", cy)
      IN IF ~ParsesFloat(f.ox)
         THEN [entry |-> e1, exc |-> "ValueError"]
         ELSE
           LET e2 == SetField(e1, "origin_x", IntOfFloat(f.ox))
           IN IF ~ParsesFloat(f.oy)
              THEN [entry |-> e2, exc |-> "ValueError"]
              ELSE
                LET e3 == SetField(e2, "origin_y", IntOfFloat(f.oy))
                IN IF cx = 0
                   THEN [entry |-> e3, exc |-> "ZeroDivisionError"]
                   ELSE
                     LET e4 == SetField(e3, "frame_width", FrameSize(w, cx))
                     IN IF cy = 0
                        THEN [entry |-> e4, exc |-> "ZeroDivisionError"]
                        ELSE [entry |->
                                SetField(e4, "frame_height", FrameSize(h, cy)),
                              exc |-> "none"]

\* Mutant of StoreEntry: every key holds the same dict object, so a write
\* through one key shows under all of them.
StoreEntry_shared(d, p, e) == [q \in DOMAIN d |-> e]

\* The dict after `entry` (the object stored at key p) has been mutated.
StoreEntry(d, p, e) == [d EXCEPT ![p] = e]

\* -------------------------------------------------------------- show_image

\* show_image() for current_path = path: the image size attributes, whether
\* an origin marker is in the scene afterwards, and the exception raised.
ShowImage(path, fsys, f, w, h) ==
    IF path = NoPath \/ fsys[path] # "ok"
    THEN [w |-> w, h |-> h, marker |-> FALSE, exc |-> "none"]
    ELSE
      LET size == ImageSize(path)
          shown == [w |-> size[1], h |-> size[2], marker |-> FALSE]
      IN IF ~(ParsesFloat(f.ox) /\ ParsesFloat(f.oy)
              /\ ParsesFloat(f.cx) /\ ParsesFloat(f.cy))
         THEN shown @@ [exc |-> "ValueError"]
         ELSE IF IntOfFloat(f.cx) = 0 \/ IntOfFloat(f.cy) = 0
         THEN shown @@ [exc |-> "ZeroDivisionError"]
         ELSE [w |-> size[1], h |-> size[2], marker |-> TRUE, exc |-> "none"]

\* ------------------------------------------------------------- apply_frame

\* The form texts after lines 399-411 of apply_frame, and the KeyError of an
\* entry that has fields but no frame_count_x / frame_count_y.
ApplyFrame(d, path, f) ==
    LET entry == IF path \in DOMAIN d THEN d[path] ELSE EmptyEntry
    IN IF DOMAIN entry = {}
       THEN [f |-> [cx |-> Str(1), cy |-> Str(1), ox |-> Str(0), oy |-> Str(0)],
             exc |-> "none"]
       ELSE IF "frame_count_x" \notin DOMAIN entry
       THEN [f |-> f, exc |-> "KeyError"]
       ELSE IF "frame_count_y" \notin DOMAIN entry
       THEN [f |-> [f EXCEPT !.cx = Str(entry["frame_count_x"])],
             exc |-> "KeyError"]
       ELSE [f |-> [cx |-> Str(entry["frame_count_x"]),
                    cy |-> Str(entry["frame_count_y"]),
                    ox |-> IF "origin_x" \in DOMAIN entry
                           THEN Str(entry["origin_x"]) ELSE f.ox,
                    oy |-> IF "origin_y" \in DOMAIN entry
                           THEN Str(entry["origin_y"]) ELSE f.oy],
             exc |-> "none"]

\* ------------------------------------------------- OriginPoint.itemChange

\* new_pos.x() / zoom as a rational (lines 95-96, 104-105).
ToImageSpace(c, z) == <<c[1] * z[2], c[2] * z[1]>>

\* round(original_x) (lines 97-98).
Snap(c, z) == PyRound(ToImageSpace(c, z)[1], ToImageSpace(c, z)[2])

\* snapped_original_x * zoom (lines 99-100).
ToDisplaySpace(n, z) == <<n * z[1], z[2]>>

\* The coordinate new_pos holds after lines 93-100.
SnappedPos(c, z) == IF z[1] > 0 THEN ToDisplaySpace(Snap(c, z), z) ELSE c

\* int(new_pos.x() / zoom) (lines 104-105).
OriginalCoord(c, z) ==
    Trunc(ToImageSpace(SnappedPos(c, z), z)[1],
          ToImageSpace(SnappedPos(c, z), z)[2])

\* itemChange(ItemPositionChange, pos): the form, the dict and the exception
\* after lines 102-108.
ItemChange(d, path, f, pos, z, w, h) ==
    LET f1 == [f EXCEPT !.ox = Str(OriginalCoord(pos[1], z)),
                        !.oy = Str(OriginalCoord(pos[2], z))]
    IN IF path \notin DOMAIN d
       THEN [data |-> d, f |-> f1, exc |-> "KeyError"]
       ELSE LET u == UpdateData(d[path], f1, w, h)
            IN [data |-> StoreEntry(d, path, u.entry), f |-> f1,
                exc |-> u.exc]

\* -------------------------------------------------------------- export_json

\* Mutant of ExportGuard: the two early returns are left out.
ExportGuard_none(d, paths) == "none"

\* The guards of lines 475-480: the message of the error box shown, or "none".
ExportGuard(d, paths) ==
    IF DOMAIN d = {} THEN "No data to export"
    ELSE IF paths = <<>> THEN "No images loaded"
    ELSE "none"

\* {os.path.relpath(k, root_folder): v for k, v in self.data.items()}
Relativize(d, root_folder) ==
    [k \in {RelPath(p, root_folder) : p \in DOMAIN d} |->
        d[CHOOSE p \in DOMAIN d : RelPath(p, root_folder) = k]]

\* open(save_path, "w") succeeds: the parent of data.json is a directory.
CanWrite(root_folder) == root_folder \in Dirs

\* ------------------------------------------------------------------- state

VARIABLES
    fs,              \* the folder: file -> "absent" | "ok" | "corrupt"
    sidecar,         \* directory -> contents of its data.json
    current_folder,  \* self.current_folder (NoPath before the first load)
    data,            \* self.data
    image_paths,     \* self.image_paths
    selected,        \* the tree item selected (NoPath: none)
    current_path,    \* self.current_path
    img_width,       \* self.img_width
    img_height,      \* self.img_height
    zoom,            \* self.zoom
    origin_point,    \* self.origin_point is a marker in the scene
    count_x_entry,   \* text of the four QLineEdit fields
    count_y_entry,
    origin_x_entry,
    origin_y_entry,
    editing,         \* the field with typed text and no editingFinished yet
    value,           \* the position passed to the last itemChange
    calc,            \* the frame-size calculator of SpecDerive
    lastOp,          \* the handler that ran last
    result,          \* how it ended
    steps

formVars == <<count_x_entry, count_y_entry, origin_x_entry, origin_y_entry>>
diskVars == <<fs, sidecar>>
viewVars == <<img_width, img_height, zoom, origin_point>>
vars ==
    <<fs, sidecar, current_folder, data, image_paths, selected, current_path,
      img_width, img_height, zoom, origin_point, count_x_entry, count_y_entry,
      origin_x_entry, origin_y_entry, editing, value, calc, lastOp, result,
      steps>>

\* The four form texts as one record.
Form ==
    [cx |-> count_x_entry, cy |-> count_y_entry,
     ox |-> origin_x_entry, oy |-> origin_y_entry]

\* setText on the four fields.
SetForm(f) ==
    /\ count_x_entry' = f.cx
    /\ count_y_entry' = f.cy
    /\ origin_x_entry' = f.ox
    /\ origin_y_entry' = f.oy

\* The float 1.0.
One == <<1, 1>>

Origin == <<<<0, 1>>, <<0, 1>>>>

CalcIdle ==
    [stage |-> "idle", w |-> 0, h |-> 0, cx |-> 0, cy |-> 0,
     fw |-> 0, fh |-> 0, rx |-> 0, ry |-> 0]

\* SpriteManager.__init__ (lines 151-165): an empty editor.
InitEditor ==
    /\ current_folder = NoPath
    /\ data = EmptyDict
    /\ image_paths = <<>>
    /\ selected = NoPath
    /\ current_path = NoPath
    /\ img_width = 0
    /\ img_height = 0
    /\ zoom = One
    /\ origin_point = FALSE
    /\ count_x_entry = TxtEmpty
    /\ count_y_entry = TxtEmpty
    /\ origin_x_entry = TxtEmpty
    /\ origin_y_entry = TxtEmpty
    /\ editing = "none"
    /\ value = Origin
    /\ lastOp = "init"
    /\ result = "ok"
    /\ steps = 0

\* The folder the user will pick: any mix of the three images (c.jpeg may be
\* a file QImage cannot decode), a text file, and any of the sidecars.
Init ==
    /\ InitEditor
    /\ fs \in {f \in [AllFiles -> {"absent", "ok", "corrupt"}] :
                 /\ f[FileN] = "ok"
                 /\ f[FileA] # "corrupt"
                 /\ f[FileB] # "corrupt"}
    /\ sidecar \in {s \in [Dirs -> InitialSidecars] : s[Sub] = NoSidecar}
    /\ calc = CalcIdle

\* Every handler is one event: it counts a step and records its name.
Event(name) ==
    /\ steps < MaxSteps
    /\ steps' = steps + 1
    /\ lastOp' = name
    /\ UNCHANGED calc

\* --------------------------------------------------------------- load_folder

\* load_folder (lines 257-320).  choice is what the folder dialog returns
\* when there is no current folder yet (NoPath: cancelled).
load_folder(choice) ==
    /\ Event("load_folder")
    /\ editing = "none"
    /\ IF current_folder = NoPath /\ choice = NoPath
       THEN /\ result' = "cancelled"
            /\ UNCHANGED <<current_folder, data, image_paths, selected>>
       ELSE LET folder == IF current_folder # NoPath
                          THEN current_folder ELSE choice
                read == ReadSidecar(folder, sidecar[folder])
                paths == Scan(fs)
            IN /\ current_folder' = folder
               /\ image_paths' = paths
               /\ selected' = NoPath
               /\ data' = AddPlaceholders(
                              PruneDeleted(read.data, Range(paths)), paths)
               /\ result' = IF read.warned THEN "Failed to load data.json"
                            ELSE "ok"
    /\ UNCHANGED <<diskVars, viewVars, formVars, current_path, editing, value>>

\* ------------------------------------------------------------ on_tree_select

\* on_tree_select (lines 322-337) for the tree item of image p.
on_tree_select(p) ==
    /\ Event("on_tree_select")
    /\ editing = "none"
    /\ p \in Range(image_paths)
    /\ p # selected
    /\ selected' = p
    /\ current_path' = p
    /\ zoom' = One
    /\ LET a == ApplyFrame(data, p, Form)
           s == ShowImage(p, fs, a.f, img_width, img_height)
       IN /\ SetForm(a.f)
          /\ IF a.exc # "none"
             THEN /\ origin_point' = FALSE
                  /\ UNCHANGED <<img_width, img_height>>
                  /\ result' = a.exc
             ELSE /\ origin_point' = s.marker
                  /\ img_width' = s.w
                  /\ img_height' = s.h
                  /\ result' = IF s.exc = "none" THEN "ok" ELSE s.exc
    /\ UNCHANGED <<diskVars, current_folder, data, image_paths, editing, value>>

\* ------------------------------------------------------------------ typing

\* Texts the user types into a count field and into an origin field.
CountXTexts == {TxtWord, Str(0), Str(2), TxtDec(5)}
CountYTexts == {TxtEmpty, Str(2)}
OriginXTexts == {TxtWord, TxtDec(15)}
OriginYTexts == {TxtDec(15)}
TypedTexts == CountXTexts \cup CountYTexts \cup OriginXTexts \cup OriginYTexts

\* The user edits the text of one QLineEdit (lines 219-240).  The field keeps
\* the keyboard focus and editingFinished has not fired yet: it fires on
\* Return and when the focus leaves the field, which a click on the tree, on
\* the view, on a button or on another field makes it do first.
type_text(field, t) ==
    /\ Event("type_text")
    /\ editing \in {"none", field}
    /\ editing' = field
    /\ \/ /\ field = "count_x"
          /\ t \in CountXTexts
          /\ count_x_entry' = t
          /\ UNCHANGED <<count_y_entry, origin_x_entry, origin_y_entry>>
       \/ /\ field = "count_y"
          /\ t \in CountYTexts
          /\ count_y_entry' = t
          /\ UNCHANGED <<count_x_entry, origin_x_entry, origin_y_entry>>
       \/ /\ field = "origin_x"
          /\ t \in OriginXTexts
          /\ origin_x_entry' = t
          /\ UNCHANGED <<count_x_entry, count_y_entry, origin_y_entry>>
       \/ /\ field = "origin_y"
          /\ t \in OriginYTexts
          /\ origin_y_entry' = t
          /\ UNCHANGED <<count_x_entry, count_y_entry, origin_x_entry>>
    /\ result' = "ok"
    /\ UNCHANGED <<diskVars, viewVars, current_folder, data, image_paths,
                   selected, current_path, value>>

\* ----------------------------------------------------------- on_count_change

\* on_count_change (lines 428-450): editingFinished of a count field.
on_count_change ==
    /\ Event("on_count_change")
    /\ editing \in {"none", "count_x", "count_y"}
    /\ editing' = "none"
    /\ IF current_path = NoPath
       THEN /\ result' = "return"
            /\ UNCHANGED <<data, viewVars, formVars>>
       ELSE
         LET x0 == count_x_entry
             \* lines 433-438: an empty field beside a filled one becomes "1"
             y1 == IF Truthy(x0) /\ ~Truthy(count_y_entry)
                   THEN Str(1) ELSE count_y_entry
             x1 == IF Truthy(y1) /\ ~Truthy(x0) THEN Str(1) ELSE x0
         IN IF ~(ParsesInt(x1) /\ ParsesInt(y1))
            THEN /\ SetForm([Form EXCEPT !.cx = x1, !.cy = y1])
                 /\ result' = "ignored"
                 /\ UNCHANGED <<data, viewVars>>
            ELSE
              LET \* lines 442-445: the clamp of the two fields
                  f == [Form EXCEPT
                          !.cx = IF x1.n <= 0 THEN Str(1) ELSE x1,
                          !.cy = IF y1.n <= 0 THEN Str(1) ELSE y1]
                  s == ShowImage(current_path, fs, f, img_width, img_height)
              IN /\ SetForm(f)
                 /\ IF current_path \notin DOMAIN data
                    THEN /\ result' = "KeyError"
                         /\ UNCHANGED <<data, viewVars>>
                    ELSE
                      /\ img_width' = s.w
                      /\ img_height' = s.h
                      /\ origin_point' = s.marker
                      /\ UNCHANGED zoom
                      /\ IF s.exc # "none"
                         THEN /\ result' = IF s.exc = "ValueError"
                                           THEN "ignored" ELSE s.exc
                              /\ UNCHANGED data
                         ELSE
                           LET u == UpdateData(data[current_path], f, s.w, s.h)
                           IN /\ data' = StoreEntry(data, current_path, u.entry)
                              /\ result' = CASE u.exc = "none" -> "ok"
                                             [] u.exc = "ValueError" -> "ignored"
                                             [] OTHER -> u.exc
    /\ UNCHANGED <<diskVars, current_folder, image_paths, selected,
                   current_path, value>>

\* ---------------------------------------------------------------- itemChange

\* Positions the marker is dragged to: 3/2, -8/5, 5/2 and 3/5.
DragPositions == {<<<<3, 2>>, <<-8, 5>>>>, <<<<5, 2>>, <<3, 5>>>>}

\* OriginPoint.itemChange (lines 88-111) for a drag of the marker to pos.
itemChange(pos) ==
    /\ Event("itemChange")
    /\ editing = "none"
    /\ origin_point
    /\ pos \in DragPositions
    /\ value' = pos
    /\ LET c == ItemChange(data, current_path, Form, pos, zoom,
                           img_width, img_height)
       IN /\ SetForm(c.f)
          /\ data' = c.data
          /\ result' = IF c.exc = "none" THEN "ok" ELSE c.exc
    /\ UNCHANGED <<diskVars, viewVars, current_folder, image_paths, selected,
                   current_path, editing>>

\* ---------------------------------------------------------- on_origin_change

\* on_origin_change (lines 452-472): editingFinished of an origin field.
\* setPos (line 467) runs itemChange; an exception raised there is either
\* raised again when setPos returns (reraise) or printed by the binding.
on_origin_change(reraise) ==
    /\ Event("on_origin_change")
    /\ editing \in {"none", "origin_x", "origin_y"}
    /\ editing' = "none"
    /\ IF ~origin_point
       THEN /\ result' = "return"
            /\ UNCHANGED <<data, formVars>>
       ELSE IF ~(ParsesFloat(origin_x_entry) /\ ParsesFloat(origin_y_entry))
       THEN /\ result' = "ignored"
            /\ UNCHANGED <<data, formVars>>
       ELSE
         LET ox == IntOfFloat(origin_x_entry)
             oy == IntOfFloat(origin_y_entry)
             f == [Form EXCEPT !.ox = Str(ox), !.oy = Str(oy)]
             pos == <<ToDisplaySpace(ox, zoom), ToDisplaySpace(oy, zoom)>>
             c == ItemChange(data, current_path, f, pos, zoom,
                             img_width, img_height)
         IN /\ SetForm(c.f)
            /\ IF c.exc # "none" /\ reraise
               THEN /\ data' = c.data
                    /\ result' = IF c.exc = "ValueError"
                                 THEN "ignored" ELSE c.exc
               ELSE IF current_path \notin DOMAIN c.data
               THEN /\ data' = c.data
                    /\ result' = "KeyError"
               ELSE
                 LET u == UpdateData(c.data[current_path], c.f,
                                     img_width, img_height)
                 IN /\ data' = StoreEntry(c.data, current_path, u.entry)
                    /\ result' = CASE c.exc # "none" -> c.exc
                                   [] u.exc = "none" -> "ok"
                                   [] u.exc = "ValueError" -> "ignored"
                                   [] OTHER -> u.exc
    /\ UNCHANGED <<diskVars, viewVars, current_folder, image_paths, selected,
                   current_path, value>>

\* --------------------------------------------------------------- export_json

\* export_json (lines 474-491): Ctrl+S (lines 167-170), which leaves the
\* keyboard focus where it is, or the Save button.
export_json ==
    /\ Event("export_json")
    /\ LET guard == ExportGuard(data, image_paths)
       IN IF guard # "none"
          THEN /\ result' = guard
               /\ UNCHANGED <<data, sidecar>>
          ELSE IF current_path # NoPath /\ current_path \notin DOMAIN data
          THEN /\ result' = "KeyError"
               /\ UNCHANGED <<data, sidecar>>
          ELSE
            LET u == IF current_path = NoPath
                     THEN [entry |-> EmptyEntry, exc |-> "none"]
                     ELSE UpdateData(data[current_path], Form,
                                     img_width, img_height)
                d == IF current_path = NoPath THEN data
                     ELSE StoreEntry(data, current_path, u.entry)
                root_folder == CommonPath(image_paths)
            IN /\ data' = d
               /\ IF u.exc # "none"
                  THEN /\ result' = u.exc
                       /\ UNCHANGED sidecar
                  ELSE IF image_paths = <<>>
                  THEN \* os.path.commonpath([]) raises ValueError
                       /\ result' = "ValueError"
                       /\ UNCHANGED sidecar
                  ELSE IF ~CanWrite(root_folder)
                  THEN /\ result' = "Failed to save"
                       /\ UNCHANGED sidecar
                  ELSE /\ result' = "Saved"
                       /\ sidecar' =
                            [sidecar EXCEPT ![root_folder] =
                                MapSidecar(Relativize(d, root_folder))]
    /\ UNCHANGED <<fs, viewVars, formVars, current_folder, image_paths,
                   selected, current_path, editing, value>>

\* --------------------------------------------------------------- environment

\* An image file is deleted from the folder while the editor is open.
delete_file(p) ==
    /\ Event("delete_file")
    /\ IsImageName(Last(p))
    /\ fs[p] # "absent"
    /\ fs' = [fs EXCEPT ![p] = "absent"]
    /\ result' = "ok"
    /\ UNCHANGED <<sidecar, viewVars, formVars, current_folder, data,
                   image_paths, selected, current_path, editing, value>>

\* ------------------------------------------------------------- specification

Next ==
    \/ \E choice \in {Root, NoPath} : load_folder(choice)
    \/ \E p \in AllFiles : on_tree_select(p)
    \/ \E field \in {"count_x", "count_y", "origin_x", "origin_y"} :
         \E t \in TypedTexts : type_text(field, t)
    \/ on_count_change
    \/ \E pos \in DragPositions : itemChange(pos)
    \/ \E reraise \in BOOLEAN : on_origin_change(reraise)
    \/ export_json
    \/ \E p \in AllFiles : delete_file(p)

Spec == Init /\ [][Next]_vars

\* ------------------------------------------------- frame-size calculator

\* Largest image dimension and largest frame count the calculator is given.
MaxDim == 6
MaxCount == 6

\* image_dimension // frame_size: the inverse derivation of the editor
\* variant in which the frame size is the edited value.
CountFromSize(dim, size) == FloorDiv(dim, size)

\* An editor with nothing loaded and the calculator holding its inputs.
InitDerive ==
    /\ InitEditor
    /\ fs = [p \in AllFiles |-> "ok"]
    /\ sidecar = [d \in Dirs |-> NoSidecar]
    /\ calc \in {[CalcIdle EXCEPT !.stage = "input", !.w = w, !.h = h,
                                  !.cx = cx, !.cy = cy] :
                   w \in 1..MaxDim, h \in 1..MaxDim,
                   cx \in 1..MaxCount, cy \in 1..MaxCount}

\* Frame sizes from counts, as update_data computes them (lines 425-426).
DeriveFromCounts ==
    /\ calc.stage = "input"
    /\ calc' = [calc EXCEPT !.stage = "counts",
                            !.fw = FrameSize(calc.w, calc.cx),
                            !.fh = FrameSize(calc.h, calc.cy)]
    /\ UNCHANGED <<fs, sidecar, current_folder, data, image_paths, selected,
                   current_path, viewVars, formVars, editing, value, lastOp,
                   result, steps>>

\* Counts back from the frame sizes; a frame size of 0 is refused.
DeriveFromSizes ==
    /\ calc.stage = "counts"
    /\ calc' = IF calc.fw > 0 /\ calc.fh > 0
               THEN [calc EXCEPT !.stage = "sizes",
                                 !.rx = CountFromSize(calc.w, calc.fw),
                                 !.ry = CountFromSize(calc.h, calc.fh)]
               ELSE [calc EXCEPT !.stage = "ValidationError"]
    /\ UNCHANGED <<fs, sidecar, current_folder, data, image_paths, selected,
                   current_path, viewVars, formVars, editing, value, lastOp,
                   result, steps>>

NextDerive == DeriveFromCounts \/ DeriveFromSizes

SpecDerive == InitDerive /\ [][NextDerive]_vars

\* ------------------------------------------------------------------ claims

\* The handlers that call update_data.
Writers == {"on_count_change", "on_origin_change", "itemChange", "export_json"}

\* The mapping of the sidecar a load of current_folder reads.
LoadedMap ==
    IF sidecar[current_folder].kind = "map"
    THEN sidecar[current_folder].m
    ELSE EmptyDict

C2_LoadSaveRoundTrip ==
    [][(/\ lastOp = "load_folder"
        /\ result # "cancelled"
        /\ image_paths # <<>>
        /\ lastOp' = "export_json")
       => /\ sidecar'[current_folder].kind = "map"
          /\ DOMAIN sidecar'[current_folder].m =
                {RelPath(p, current_folder) : p \in DOMAIN data}
          /\ \A p \in DOMAIN data :
                sidecar'[current_folder].m[RelPath(p, current_folder)] = data[p]
          /\ AddPlaceholders(
                PruneDeleted(
                    ReadSidecar(current_folder, sidecar'[current_folder]).data,
                    Range(Scan(fs))),
                Scan(fs)) = data]_vars

\* C3: a save with an empty dataset or with no discovered image path ends
\* with one of the two validation errors and changes neither the dataset nor
\* any sidecar file, whatever is selected and whatever the fields hold.
C3_EmptySaveRejected ==
    [][(/\ lastOp' = "export_json"
        /\ (DOMAIN data = {} \/ image_paths = <<>>))
       => /\ result' \in {"No data to export", "No images loaded"}
          /\ data' = data
          /\ sidecar' = sidecar]_vars

\* C3 witness: a save refused while an image is still selected (its file was
\* deleted and the refresh left the dataset empty) and a count field holds
\* non-numeric text.
C3_Witness ==
    /\ lastOp = "export_json"
    /\ result = "No data to export"
    /\ current_path # NoPath
    /\ count_x_entry = TxtWord
    /\ data = EmptyDict

\* The entry e has the frame sizes of a w x h image cut into its counts.
FrameInvariant(e, w, h) ==
    /\ {"frame_width", "frame_height", "frame_count_x", "frame_count_y"}
          \subseteq DOMAIN e
    /\ e["frame_count_x"] # 0
    /\ e["frame_count_y"] # 0
    /\ e["frame_width"] = FloorDiv(w, e["frame_count_x"])
    /\ e["frame_height"] = FloorDiv(h, e["frame_count_y"])

\* C4: the entry an editor operation has just written (the operation having
\* run to its end) has frame_width = floor(W / frame_count_x) and
\* frame_height = floor(H / frame_count_y) for the size W x H of the entry's
\* own image, also when that image could not be opened or decoded.
C4_FrameSizeOfOwnImage ==
    (/\ lastOp \in Writers
     /\ result \in {"ok", "Saved", "Failed to save"}
     /\ current_path \in DOMAIN data)
    => FrameInvariant(data[current_path],
                      ImageSize(current_path)[1], ImageSize(current_path)[2])

\* C5: no entry holds a frame count <= 0 and no derivation divides by a
\* count of zero (every sidecar the editor starts from holds positive counts).
C5_CountsStayPositive ==
    /\ result # "ZeroDivisionError"
    /\ \A p \in DOMAIN data :
         /\ "frame_count_x" \in DOMAIN data[p] => data[p]["frame_count_x"] > 0
         /\ "frame_count_y" \in DOMAIN data[p] => data[p]["frame_count_y"] > 0

\* C6: after a drag of the origin marker to (dx, dy) the entry of the
\* selected image holds origin_x = round(dx / zoom), origin_y = round(dy / zoom).
C6_DragStoresRounded ==
    lastOp = "itemChange" =>
        /\ current_path \in DOMAIN data
        /\ {"origin_x", "origin_y"} \subseteq DOMAIN data[current_path]
        /\ data[current_path]["origin_x"] =
              PyRound(value[1][1] * zoom[2], value[1][2] * zoom[1])
        /\ data[current_path]["origin_y"] =
              PyRound(value[2][1] * zoom[2], value[2][2] * zoom[1])

\* The handlers that move the origin point.
Movers == {"itemChange", "on_origin_change"}

C8_NonNumericCountTolerated ==
    (/\ lastOp \in Writers
     /\ (~ParsesFloat(count_x_entry) \/ ~ParsesFloat(count_y_entry)))
    => result # "ValueError"

\* C9 as stated: counts derived back from the derived frame sizes are at
\* most the counts given.
C9_RoundTripAtMost ==
    calc.stage = "sizes" => (calc.rx <= calc.cx /\ calc.ry <= calc.cy)

\* C9 amended: the counts derived back are at least the counts given; the
\* inverse derivation applies exactly when cx <= w and cy <= h (otherwise a
\* derived frame size is 0), and the derived sizes are the floor quotients.
C9_RoundTripAtLeast ==
    /\ calc.stage = "sizes" =>
         /\ calc.rx >= calc.cx
         /\ calc.ry >= calc.cy
         /\ calc.cx <= calc.w
         /\ calc.cy <= calc.h
    /\ calc.stage = "ValidationError" => (calc.cx > calc.w \/ calc.cy > calc.h)
    /\ calc.stage \in {"counts", "sizes", "ValidationError"} =>
         /\ calc.fw * calc.cx <= calc.w
         /\ calc.w < (calc.fw + 1) * calc.cx
         /\ calc.fh * calc.cy <= calc.h
         /\ calc.h < (calc.fh + 1) * calc.cy

\* C9 witness: 5 pixels in 3 frames give frames of 1 pixel, and 5 frames back.
C9_Witness ==
    /\ calc.stage = "sizes"
    /\ calc.w = 5
    /\ calc.cx = 3
    /\ calc.fw = 1
    /\ calc.rx = 5

\* C10: the selected image path, when set, is a key of the dataset.
C10_CurrentPathIsKey ==
    current_path # NoPath => current_path \in DOMAIN data

\* The form a selection of an image with entry e is to show: the values of
\* e, and the defaults (counts 1 and 1, origin 0 and 0) for what e lacks.
OwnForm(e) ==
    [cx |-> IF "frame_count_x" \in DOMAIN e
            THEN Str(e["frame_count_x"]) ELSE Str(1),
     cy |-> IF "frame_count_y" \in DOMAIN e
            THEN Str(e["frame_count_y"]) ELSE Str(1),
     ox |-> IF "origin_x" \in DOMAIN e THEN Str(e["origin_x"]) ELSE Str(0),
     oy |-> IF "origin_y" \in DOMAIN e THEN Str(e["origin_y"]) ELSE Str(0)]

\* C11: when image B is selected after image A the form shows only values of
\* B's own entry or the defaults, and a save that follows the selection
\* stores in B's entry the counts and the origin of that form: no value of A.
C11_SelectionShowsOwnValues ==
    [][/\ (/\ lastOp' = "on_tree_select"
           /\ current_path # NoPath
           /\ current_path' # current_path
           /\ current_path' \in DOMAIN data)
          => Form' = OwnForm(data[current_path'])
       /\ (/\ lastOp = "on_tree_select"
           /\ lastOp' = "export_json"
           /\ result' \in {"Saved", "Failed to save"}
           /\ current_path \in DOMAIN data)
          => /\ data'[current_path]["frame_count_x"]
                  = OwnForm(data[current_path]).cx.n
             /\ data'[current_path]["frame_count_y"]
                  = OwnForm(data[current_path]).cy.n
             /\ data'[current_path]["origin_x"]
                  = OwnForm(data[current_path]).ox.n
             /\ data'[current_path]["origin_y"]
                  = OwnForm(data[current_path]).oy.n]_vars

====
